---- MODULE Spec2Model ----
(***************************************************************************)
(* Authentication layer of the secured MCP server (src/src/index.ts):      *)
(* the validTokens registry, the /oauth/token and /oauth/revoke endpoints, *)
(* the /mcp endpoint with injectAuthMiddleware, and validateAuth.          *)
(*                                                                         *)
(* Optional values (string | undefined) are sequences of length <= 1.      *)
(* A token string is a record [parts, payload, sig]: parts is the number   *)
(* of dot-separated segments (0 is the empty string, 3 a JWT), payload the *)
(* claims, sig the HMAC of the claims under some key.                      *)
(***************************************************************************)
EXTENDS Integers, Sequences, FiniteSets, TLC

VARIABLES validTokens, now, last, issuedLog, revoked, lost, inflight, seqTokens

vars == <<validTokens, now, last, issuedLog, revoked, lost, inflight, seqTokens>>
hist == <<issuedLog, revoked>>
\* bookkeeping of restarts (lost) and of requests in flight (inflight,
\* seqTokens)
conc == <<inflight, seqTokens>>
aside == <<hist, lost, conc>>

----------------------------------------------------------------------------
(* Configuration *)

VALID_API_KEY == "mcp-secret-key-12345"
JWT_SECRET == "mcp-jwt-secret-key-do-not-use-in-production"
OAUTH_CLIENT_ID == "mcp-client"
OAUTH_CLIENT_SECRET == "mcp-client-secret"

\* expiresIn: "1h", in seconds
Lifetime == 3600
\* expires_in field of the token response
ExpiresInAdvertised == 3600
\* Date.now() is in milliseconds; claims are in seconds
MsPerSec == 1000

\* ErrorCode members used by the handlers
InvalidRequest == -32600
MethodNotFound == -32601
InvalidParams == -32602

MsgInvalidToken == "Invalid or expired OAuth2 token"
MsgAuthRequired == "Authentication required. Provide either 'x-api-key' header or 'Authorization: Bearer' token."

----------------------------------------------------------------------------
(* Bounds *)

\* tokens are issued during seconds 0..MaxIssueSec of the run
MaxIssueSec == 1
\* successful issuances recorded in issuedLog
MaxIssues == 3
\* clients with a /mcp request in flight at the same time
MaxClients == 2
Clients == 1..MaxClients

----------------------------------------------------------------------------
(* Optional values and truthiness *)

None == <<>>
Some(x) == <<x>>

\* if (s) for s: string | undefined
TruthyStr(o) == o # None /\ o[1] # ""

TruthyTokDefined(o) == o # None

\* if (t) for a token string t
TruthyTok(o) == o # None /\ o[1].parts # 0

----------------------------------------------------------------------------
(* jsonwebtoken *)

Hmac(key, claims) == [key |-> key, data |-> claims]

JwtSignShort(payload, secret, expiresIn) ==
    LET claims == [client_id |-> payload.client_id, scope |-> payload.scope,
                   iat |-> payload.iat, exp |-> payload.iat + expiresIn - 1]
    IN  [parts |-> 3, payload |-> claims, sig |-> Hmac(secret, claims)]

\* jwt.sign(payload, secret, {expiresIn}): exp = iat + expiresIn
JwtSign(payload, secret, expiresIn) ==
    LET claims == [client_id |-> payload.client_id, scope |-> payload.scope,
                   iat |-> payload.iat, exp |-> payload.iat + expiresIn]
    IN  [parts |-> 3, payload |-> claims, sig |-> Hmac(secret, claims)]

JwtVerifyIgnoreExp(token, secret, clockTimestamp) ==
    /\ token.parts = 3
    /\ token.sig = Hmac(secret, token.payload)

JwtVerifyExactExp(token, secret, clockTimestamp) ==
    /\ token.parts = 3
    /\ token.sig = Hmac(secret, token.payload)
    /\ ~ (clockTimestamp = token.payload.exp)

\* jwt.verify(token, secret) does not throw: three segments, the signature is
\* the HMAC of the claims, and clockTimestamp < exp
JwtVerify(token, secret, clockTimestamp) ==
    /\ token.parts = 3
    /\ token.sig = Hmac(secret, token.payload)
    /\ ~ (clockTimestamp >= token.payload.exp)

\* Math.floor(Date.now() / 1000)
ClockTimestamp == now \div MsPerSec

----------------------------------------------------------------------------
(* Token strings a client can present *)

NoClaims == [client_id |-> None, scope |-> "", iat |-> 0, exp |-> 0]

\* ""
EmptyToken == [parts |-> 0, payload |-> NoClaims, sig |-> Hmac("", NoClaims)]
\* "not-a-real-token"
GarbageToken == [parts |-> 1, payload |-> NoClaims, sig |-> Hmac("", NoClaims)]

TokenPayloadFixedClient(client_id, iat) ==
    [client_id |-> Some("client"), scope |-> "mcp:tools", iat |-> iat]

\* the payload object given to jwt.sign
TokenPayload(client_id, iat) ==
    [client_id |-> client_id, scope |-> "mcp:tools", iat |-> iat]

\* the tokens the server can sign during the issuance window
IssuableTokens ==
    {JwtSign(TokenPayload(Some(OAUTH_CLIENT_ID), s), JWT_SECRET, Lifetime) : s \in 0..MaxIssueSec}

FirstToken == JwtSign(TokenPayload(Some(OAUTH_CLIENT_ID), 0), JWT_SECRET, Lifetime)

\* same claims, signed with a key that is not JWT_SECRET
ForgedToken == JwtSign(TokenPayload(Some(OAUTH_CLIENT_ID), 0), "attacker-secret", Lifetime)

\* claims of FirstToken with a later exp, signature of FirstToken
TamperedToken ==
    [FirstToken EXCEPT !.payload = [@ EXCEPT !.exp = @ + Lifetime]]

Tokens == IssuableTokens \cup {ForgedToken, TamperedToken, GarbageToken, EmptyToken}

----------------------------------------------------------------------------
(* validateAuth *)

Authenticated(method) == [auth |-> method, code |-> 0, message |-> ""]
Rejected(code, message) == [auth |-> "rejected", code |-> code, message |-> message]

validateAuthNoRegistry(apiKey, bearerToken) ==
    IF TruthyStr(apiKey) /\ apiKey[1] = VALID_API_KEY
    THEN Authenticated("apikey")
    ELSE IF TruthyTok(bearerToken)
         THEN IF JwtVerify(bearerToken[1], JWT_SECRET, ClockTimestamp)
              THEN Authenticated("oauth2")
              ELSE Rejected(InvalidRequest, MsgInvalidToken)
         ELSE Rejected(InvalidRequest, MsgAuthRequired)

validateAuthBearerFirst(apiKey, bearerToken) ==
    IF TruthyTok(bearerToken)
    THEN IF JwtVerify(bearerToken[1], JWT_SECRET, ClockTimestamp)
            /\ bearerToken[1] \in validTokens
         THEN Authenticated("oauth2")
         ELSE Rejected(InvalidRequest, MsgInvalidToken)
    ELSE IF TruthyStr(apiKey) /\ apiKey[1] = VALID_API_KEY
         THEN Authenticated("apikey")
         ELSE Rejected(InvalidRequest, MsgAuthRequired)

validateAuthLeaky(apiKey, bearerToken) ==
    IF TruthyStr(apiKey) /\ apiKey[1] = VALID_API_KEY
    THEN Authenticated("apikey")
    ELSE IF TruthyTok(bearerToken)
         THEN IF JwtVerify(bearerToken[1], JWT_SECRET, ClockTimestamp)
              THEN IF bearerToken[1] \in validTokens
                   THEN Authenticated("oauth2")
                   ELSE Rejected(InvalidRequest, "Token not in valid set")
              ELSE Rejected(InvalidRequest, MsgInvalidToken)
         ELSE Rejected(InvalidRequest, MsgAuthRequired)

validateAuthUncaught(apiKey, bearerToken) ==
    IF TruthyStr(apiKey) /\ apiKey[1] = VALID_API_KEY
    THEN Authenticated("apikey")
    ELSE IF TruthyTok(bearerToken)
         THEN IF bearerToken[1].parts # 3
              THEN [auth |-> "threw", code |-> -32603, message |-> "jwt malformed"]
              ELSE IF JwtVerify(bearerToken[1], JWT_SECRET, ClockTimestamp)
                      /\ bearerToken[1] \in validTokens
                   THEN Authenticated("oauth2")
                   ELSE Rejected(InvalidRequest, MsgInvalidToken)
         ELSE Rejected(InvalidRequest, MsgAuthRequired)

validateAuthWrongKeyMessage(apiKey, bearerToken) ==
    IF TruthyStr(apiKey) /\ apiKey[1] = VALID_API_KEY
    THEN Authenticated("apikey")
    ELSE IF TruthyTok(bearerToken)
         THEN IF JwtVerify(bearerToken[1], JWT_SECRET, ClockTimestamp)
                 /\ bearerToken[1] \in validTokens
              THEN Authenticated("oauth2")
              ELSE Rejected(InvalidRequest, MsgInvalidToken)
         ELSE IF TruthyStr(apiKey)
              THEN Rejected(InvalidRequest, "Invalid API key")
              ELSE Rejected(InvalidRequest, MsgAuthRequired)

validateAuthWrongKeyRejects(apiKey, bearerToken) ==
    IF TruthyStr(apiKey)
    THEN IF apiKey[1] = VALID_API_KEY
         THEN Authenticated("apikey")
         ELSE Rejected(InvalidRequest, MsgAuthRequired)
    ELSE IF TruthyTok(bearerToken)
         THEN IF JwtVerify(bearerToken[1], JWT_SECRET, ClockTimestamp)
                 /\ bearerToken[1] \in validTokens
              THEN Authenticated("oauth2")
              ELSE Rejected(InvalidRequest, MsgInvalidToken)
         ELSE Rejected(InvalidRequest, MsgAuthRequired)

validateAuth(apiKey, bearerToken) ==
    IF TruthyStr(apiKey) /\ apiKey[1] = VALID_API_KEY
    THEN Authenticated("apikey")
    ELSE IF TruthyTok(bearerToken)
         THEN IF JwtVerify(bearerToken[1], JWT_SECRET, ClockTimestamp)
                 /\ bearerToken[1] \in validTokens
              THEN Authenticated("oauth2")
              ELSE Rejected(InvalidRequest, MsgInvalidToken)
         ELSE Rejected(InvalidRequest, MsgAuthRequired)

----------------------------------------------------------------------------
(* The validator of the earlier, API-key-only server *)

MsgInvalidApiKey ==
    "Invalid or missing API key. Please provide a valid API key in the request metadata."

validateApiKeyAnyKey(apiKey) ==
    IF ~ TruthyStr(apiKey)
    THEN Rejected(InvalidRequest, MsgInvalidApiKey)
    ELSE [auth |-> "returned", code |-> 0, message |-> ""]

\* validateApiKey returns nothing, or throws McpError(code, message)
validateApiKey(apiKey) ==
    IF ~ TruthyStr(apiKey) \/ apiKey[1] # VALID_API_KEY
    THEN Rejected(InvalidRequest, MsgInvalidApiKey)
    ELSE [auth |-> "returned", code |-> 0, message |-> ""]

----------------------------------------------------------------------------
(* /mcp: middleware and request handlers *)

\* authHeader.startsWith("Bearer ") on the header value scheme ++ cred
StartsWithBearer(authHeader) == authHeader.scheme = "Bearer "

\* authHeader.substring(7)
Substring7(authHeader) == authHeader.cred

\* req.body.params._meta after the middleware ran; req.metaApiKey and
\* req.metaBearer are the _meta.apiKey and _meta.bearerToken the client put
\* in the JSON body
injectAuthMiddleware(req) ==
    LET apiKey == req.apiKeyHdr
        authHeader == req.authHdr
        bearerToken == IF authHeader # None /\ StartsWithBearer(authHeader[1])
                       THEN Some(Substring7(authHeader[1]))
                       ELSE None
    IN  [apiKey |-> IF TruthyStr(apiKey) THEN apiKey ELSE req.metaApiKey,
         bearerToken |-> IF TruthyTok(bearerToken) THEN bearerToken ELSE req.metaBearer]

getCredentialsFromMeta(meta) ==
    [apiKey |-> meta.apiKey, bearerToken |-> meta.bearerToken]

\* response fields of a JSON-RPC request
RpcError(code, message) ==
    [rpcCode |-> code, rpcMessage |-> message, result |-> "none"]
RpcResult(kind) ==
    [rpcCode |-> 0, rpcMessage |-> "", result |-> kind]

AuthFields(creds, a) ==
    [vaCalled |-> TRUE, vaApiKey |-> creds.apiKey, vaBearer |-> creds.bearerToken,
     auth |-> a.auth]

AuditLineUntagged(request, authType) == [request |-> request, via |-> "unknown"]

\* console.log(`Authenticated ${request} request via ${authType}`): what the
\* line tells
AuditLine(request, authType) == [request |-> request, via |-> authType]

ListToolsHandlerNoGate(meta) ==
    LET creds == getCredentialsFromMeta(meta)
        a == validateAuth(creds.apiKey, creds.bearerToken)
    IN  AuthFields(creds, a) @@ [logged |-> TRUE, ran |-> TRUE] @@ RpcResult("tools")

\* server.setRequestHandler(ListToolsRequestSchema, ...)
ListToolsHandler(meta) ==
    LET creds == getCredentialsFromMeta(meta)
        a == validateAuth(creds.apiKey, creds.bearerToken)
    IN  IF a.auth = "rejected"
        THEN AuthFields(creds, a) @@ RpcError(a.code, a.message)
        ELSE AuthFields(creds, a) @@
             [logged |-> TRUE, audit |-> <<AuditLine("tools/list", a.auth)>>,
              ran |-> TRUE] @@
             RpcResult("tools")

CallToolHandlerLookupFirst(meta, name, message) ==
    LET creds == getCredentialsFromMeta(meta)
        a == validateAuth(creds.apiKey, creds.bearerToken)
    IN  IF name \notin {"get_server_time", "echo"}
        THEN AuthFields(creds, a) @@ RpcError(MethodNotFound, "Unknown tool")
        ELSE IF name = "echo" /\ ~ TruthyStr(message)
        THEN AuthFields(creds, a) @@ RpcError(InvalidParams, "Message is required")
        ELSE IF a.auth = "rejected"
        THEN AuthFields(creds, a) @@ RpcError(a.code, a.message)
        ELSE AuthFields(creds, a) @@
             [logged |-> TRUE, audit |-> <<AuditLine("tools/call", a.auth)>>,
              ran |-> TRUE] @@
             RpcResult("content")

\* server.setRequestHandler(CallToolRequestSchema, ...); the arguments of
\* calculate are not modelled and no request names it
CallToolHandler(meta, name, message) ==
    LET creds == getCredentialsFromMeta(meta)
        a == validateAuth(creds.apiKey, creds.bearerToken)
    IN  IF a.auth = "rejected"
        THEN AuthFields(creds, a) @@ RpcError(a.code, a.message)
        ELSE AuthFields(creds, a) @@
             [logged |-> TRUE, audit |-> <<AuditLine("tools/call", a.auth)>>,
              ran |-> TRUE] @@
             CASE name = "get_server_time" -> RpcResult("content")
               [] name = "echo" ->
                    IF ~ TruthyStr(message)
                    THEN RpcError(InvalidParams, "Message is required")
                    ELSE RpcResult("content")
               [] OTHER -> RpcError(MethodNotFound, "Unknown tool")

\* request handlers the Server constructor installs by itself
BuiltinMethods == {"ping", "initialize"}

DispatchAfterInitialize(meta, body) ==
    CASE body.method \in {"tools/list", "tools/call"} /\ last.endpoint # "POST /mcp" ->
             RpcError(InvalidRequest, "Server not initialized")
      [] body.method = "tools/list" -> ListToolsHandler(meta)
      [] body.method = "tools/call" -> CallToolHandler(meta, body.tool, body.message)
      [] body.method \in BuiltinMethods -> RpcResult("builtin")
      [] OTHER -> RpcError(MethodNotFound, "Method not found")

\* the Server routes a JSON-RPC request to the handler registered for its method
Dispatch(meta, body) ==
    CASE body.method = "tools/list" -> ListToolsHandler(meta)
      [] body.method = "tools/call" -> CallToolHandler(meta, body.tool, body.message)
      [] body.method \in BuiltinMethods -> RpcResult("builtin")
      [] OTHER -> RpcError(MethodNotFound, "Method not found")

----------------------------------------------------------------------------
(* The most recent request handled at the current clock reading, with its  *)
(* response                                                                *)

Blank ==
    [endpoint |-> "none",
     apiKeyHdr |-> None, authHdr |-> None, metaApiKey |-> None, metaBearer |-> None,
     method |-> "", tool |-> "", message |-> None,
     grant_type |-> None, client_id |-> None, client_secret |-> None,
     token |-> None,
     vaCalled |-> FALSE, vaApiKey |-> None, vaBearer |-> None, auth |-> "none",
     logged |-> FALSE, audit |-> <<>>, ran |-> FALSE,
     rpcCode |-> 0, rpcMessage |-> "", result |-> "none",
     status |-> 0, body_status |-> "", error |-> "", error_description |-> "",
     access_token |-> None, token_type |-> "", expires_in |-> 0, scope |-> "",
     revoked |-> FALSE, sent |-> 0]

Exchange(fields) == fields @@ Blank

JsonTwice(body) == body @@ [sent |-> 2]

\* res.json(body) of an /oauth handler: one response goes out
Json(body) == body @@ [sent |-> 1]

----------------------------------------------------------------------------
(* Requests *)

ApiKeyHdrs == {None, Some(""), Some("wrong-key"), Some(VALID_API_KEY)}

Bearer(t) == Some([scheme |-> "Bearer ", cred |-> t])

\* header values that do not start with "Bearer ": other capitalisations of
\* the scheme, another scheme, and the bare word "Bearer"
OtherSchemes == {"bearer ", "BEARER ", "Basic "}

AuthHdrs ==
    {None} \cup {Bearer(t) : t \in Tokens}
           \cup {Some([scheme |-> s, cred |-> FirstToken]) : s \in OtherSchemes}
           \cup {Some([scheme |-> "Bearer", cred |-> EmptyToken])}

Bodies ==
    {[method |-> "tools/list", tool |-> "", message |-> None],
     [method |-> "tools/call", tool |-> "echo", message |-> None],
     [method |-> "tools/call", tool |-> "echo", message |-> Some("hi")],
     [method |-> "tools/call", tool |-> "no-such-tool", message |-> None],
     [method |-> "ping", tool |-> "", message |-> None],
     [method |-> "resources/list", tool |-> "", message |-> None]}

ListBody == [method |-> "tools/list", tool |-> "", message |-> None]

\* the Authorization headers sent together with every x-api-key value
MainAuthHdrs == {None, Bearer(FirstToken), Bearer(GarbageToken), Bearer(EmptyToken)}

\* requests whose JSON body carries no _meta credentials of its own: for
\* tools/list every x-api-key value with the main Authorization headers and
\* no or a wrong x-api-key with the others, and for the other bodies no
\* credential, a valid one, or an invalid bearer token
HeaderRequests ==
    {[apiKeyHdr |-> k, authHdr |-> h, metaApiKey |-> None, metaBearer |-> None,
      method |-> ListBody.method, tool |-> ListBody.tool, message |-> ListBody.message] :
        k \in ApiKeyHdrs, h \in MainAuthHdrs}
    \cup
    {[apiKeyHdr |-> k, authHdr |-> h, metaApiKey |-> None, metaBearer |-> None,
      method |-> ListBody.method, tool |-> ListBody.tool, message |-> ListBody.message] :
        k \in {None, Some("wrong-key")}, h \in AuthHdrs \ MainAuthHdrs}
    \cup
    {[apiKeyHdr |-> k, authHdr |-> h, metaApiKey |-> None, metaBearer |-> None,
      method |-> b.method, tool |-> b.tool, message |-> b.message] :
        k \in {None, Some(VALID_API_KEY)},
        h \in {None, Bearer(FirstToken), Bearer(GarbageToken)},
        b \in Bodies \ {ListBody}}

\* tools/list requests whose JSON body carries params._meta.apiKey or
\* params._meta.bearerToken
MetaRequests ==
    {[apiKeyHdr |-> k, authHdr |-> h, metaApiKey |-> mk, metaBearer |-> mb,
      method |-> ListBody.method, tool |-> ListBody.tool, message |-> ListBody.message] :
        k \in {None, Some("wrong-key")},
        h \in {None, Bearer(GarbageToken)},
        mk \in {None, Some("wrong-key"), Some(VALID_API_KEY)},
        mb \in {None, Some(FirstToken)}}
    \cup
    {[apiKeyHdr |-> None, authHdr |-> Some([scheme |-> "Basic ", cred |-> GarbageToken]),
      metaApiKey |-> None, metaBearer |-> mb,
      method |-> ListBody.method, tool |-> ListBody.tool, message |-> ListBody.message] :
        mb \in {Some(FirstToken)}}
    \cup
    {[apiKeyHdr |-> None, authHdr |-> None,
      metaApiKey |-> Some(""), metaBearer |-> None,
      method |-> ListBody.method, tool |-> ListBody.tool, message |-> ListBody.message]}

McpRequests == HeaderRequests \cup MetaRequests

\* bearer-only tools/list requests
BearerRequests ==
    {r \in HeaderRequests : r.apiKeyHdr = None /\ r.method = "tools/list"
                            /\ r.authHdr # None /\ r.authHdr[1].scheme = "Bearer "}

GetRequests == {[apiKeyHdr |-> k, authHdr |-> None] : k \in {None, Some(VALID_API_KEY)}}

HealthRequests ==
    [apiKeyHdr : {None, Some("wrong-key"), Some(VALID_API_KEY)},
     authHdr : {None, Bearer(GarbageToken)}]

OptStrings(good, bad) == {None, Some(good), Some(bad)}

TokenRequests ==
    [grant_type : OptStrings("client_credentials", "password"),
     client_id : OptStrings(OAUTH_CLIENT_ID, "wrong-id"),
     client_secret : OptStrings(OAUTH_CLIENT_SECRET, "wrong-secret")]

\* revocation requests: every token value without credentials, and some
\* with the API key or with a bearer token in the headers
RevokeRequests ==
    [token : {None} \cup {Some(t) : t \in Tokens}, apiKeyHdr : {None}, authHdr : {None}]
    \cup
    {[token |-> t, apiKeyHdr |-> c[1], authHdr |-> c[2]] :
        t \in {None, Some(FirstToken), Some(GarbageToken)},
        c \in {<<Some(VALID_API_KEY), None>>, <<None, Bearer(FirstToken)>>}}

----------------------------------------------------------------------------
(* Endpoints *)

ClientMismatchBoth(client_id, client_secret) ==
    client_id # Some(OAUTH_CLIENT_ID) /\ client_secret # Some(OAUTH_CLIENT_SECRET)

\* client_id !== OAUTH_CLIENT_ID || client_secret !== OAUTH_CLIENT_SECRET
ClientMismatch(client_id, client_secret) ==
    client_id # Some(OAUTH_CLIENT_ID) \/ client_secret # Some(OAUTH_CLIENT_SECRET)

RegisterNothing(tokens, accessToken) == tokens

RegisterReplace(tokens, accessToken) == {accessToken}

\* validTokens.add(accessToken)
Register(tokens, accessToken) == tokens \cup {accessToken}

UnsupportedGrantUnlessMissing(grant_type) ==
    grant_type # None /\ grant_type # Some("client_credentials")

\* grant_type !== "client_credentials"
UnsupportedGrant(grant_type) == grant_type # Some("client_credentials")

InvalidClientResponseNamingField(req) ==
    [status |-> 401, error |-> "invalid_client",
     error_description |-> IF req.client_id # Some(OAUTH_CLIENT_ID)
                           THEN "Invalid client_id"
                           ELSE "Invalid client_secret"]

\* res.status(401).json({error: "invalid_client", ...}) for the request req
InvalidClientResponse(req) ==
    [status |-> 401, error |-> "invalid_client",
     error_description |-> "Invalid client credentials"]

\* app.post("/oauth/token", ...)
OAuthToken(req) ==
    LET reqFields == [endpoint |-> "POST /oauth/token", grant_type |-> req.grant_type,
                      client_id |-> req.client_id, client_secret |-> req.client_secret]
    IN
    IF UnsupportedGrant(req.grant_type)
    THEN /\ last' = Exchange(reqFields @@
                      Json([status |-> 400, error |-> "unsupported_grant_type",
                            error_description |->
                                "Only client_credentials grant type is supported"]))
         /\ UNCHANGED <<validTokens, now>>
    ELSE IF ClientMismatch(req.client_id, req.client_secret)
    THEN /\ last' = Exchange(reqFields @@ Json(InvalidClientResponse(req)))
         /\ UNCHANGED <<validTokens, now>>
    ELSE LET accessToken ==
                 JwtSign(TokenPayload(req.client_id, ClockTimestamp),
                         JWT_SECRET, Lifetime)
         IN  /\ ClockTimestamp <= MaxIssueSec
             /\ validTokens' = Register(validTokens, accessToken)
             /\ last' = Exchange(reqFields @@
                          Json([status |-> 200, access_token |-> Some(accessToken),
                                token_type |-> "Bearer",
                                expires_in |-> ExpiresInAdvertised,
                                scope |-> "mcp:tools"]))
             /\ UNCHANGED now

TokenMissingOrUnknown(token) == ~ TruthyTok(token) \/ token[1] \notin validTokens

\* !token
TokenMissing(token) == ~ TruthyTok(token)

UnregisterToggle(tokens, token) ==
    IF token \in tokens THEN tokens \ {token} ELSE tokens \cup {token}

UnregisterNothing(tokens, token) == tokens

UnregisterAll(tokens, token) == {}

\* validTokens.delete(token)
Unregister(tokens, token) == tokens \ {token}

OAuthRevokeRespondFirst(req) ==
    LET reqFields == [endpoint |-> "POST /oauth/revoke", token |-> req.token,
                      apiKeyHdr |-> req.apiKeyHdr, authHdr |-> req.authHdr]
    IN
    IF TokenMissing(req.token)
    THEN /\ last' = Exchange(reqFields @@
                      Json([status |-> 400, error |-> "invalid_request",
                            error_description |-> "Token parameter is required"]))
         /\ UNCHANGED <<validTokens, now>>
    ELSE /\ last' = Exchange(reqFields @@ Json([status |-> 200, revoked |-> TRUE]))
         /\ UNCHANGED <<validTokens, now>>

OAuthRevokeAuthenticated(req) ==
    LET reqFields == [endpoint |-> "POST /oauth/revoke", token |-> req.token,
                      apiKeyHdr |-> req.apiKeyHdr, authHdr |-> req.authHdr]
    IN
    IF req.apiKeyHdr # Some(VALID_API_KEY)
    THEN /\ last' = Exchange(reqFields @@ Json([status |-> 401, error |-> "invalid_client"]))
         /\ UNCHANGED <<validTokens, now>>
    ELSE IF TokenMissing(req.token)
    THEN /\ last' = Exchange(reqFields @@
                      Json([status |-> 400, error |-> "invalid_request",
                            error_description |-> "Token parameter is required"]))
         /\ UNCHANGED <<validTokens, now>>
    ELSE /\ validTokens' = Unregister(validTokens, req.token[1])
         /\ last' = Exchange(reqFields @@ Json([status |-> 200, revoked |-> TRUE]))
         /\ UNCHANGED now

\* app.post("/oauth/revoke", ...); the request headers are recorded, the
\* handler reads req.body only
OAuthRevoke(req) ==
    LET reqFields == [endpoint |-> "POST /oauth/revoke", token |-> req.token,
                      apiKeyHdr |-> req.apiKeyHdr, authHdr |-> req.authHdr]
    IN
    IF TokenMissing(req.token)
    THEN /\ last' = Exchange(reqFields @@
                      Json([status |-> 400, error |-> "invalid_request",
                            error_description |-> "Token parameter is required"]))
         /\ UNCHANGED <<validTokens, now>>
    ELSE /\ validTokens' = Unregister(validTokens, req.token[1])
         /\ last' = Exchange(reqFields @@ Json([status |-> 200, revoked |-> TRUE]))
         /\ UNCHANGED now

McpPostEvicting(req) ==
    LET meta == injectAuthMiddleware(req)
        body == [method |-> req.method, tool |-> req.tool, message |-> req.message]
    IN  /\ last' = Exchange([endpoint |-> "POST /mcp", status |-> 200] @@ req @@
                            Dispatch(meta, body))
        /\ validTokens' = IF last'.auth = "rejected" /\ last'.vaBearer # None
                          THEN validTokens \ {last'.vaBearer[1]}
                          ELSE validTokens
        /\ UNCHANGED now

\* app.all("/mcp", injectAuthMiddleware, ...) for a POST carrying one JSON-RPC
\* request
McpPost(req) ==
    LET meta == injectAuthMiddleware(req)
        body == [method |-> req.method, tool |-> req.tool, message |-> req.message]
    IN  /\ last' = Exchange([endpoint |-> "POST /mcp", status |-> 200] @@ req @@
                            Dispatch(meta, body))
        /\ UNCHANGED <<validTokens, now>>

\* app.all("/mcp", injectAuthMiddleware, ...) for a GET: there is no body to
\* inject into and no JSON-RPC request to dispatch; the transport opens the
\* event stream
McpGet(req) ==
    /\ last' = Exchange([endpoint |-> "GET /mcp", status |-> 200,
                         apiKeyHdr |-> req.apiKeyHdr, authHdr |-> req.authHdr,
                         result |-> "stream"])
    /\ UNCHANGED <<validTokens, now>>

HealthResponseGated(req) ==
    IF req.apiKeyHdr = Some(VALID_API_KEY)
    THEN [status |-> 200, body_status |-> "ok"]
    ELSE [status |-> 401, body_status |-> ""]

\* res.json({status: "ok", server: ..., version: ...})
HealthResponse(req) == [status |-> 200, body_status |-> "ok"]

\* app.get("/health", ...)
HealthCheck(req) ==
    /\ last' = Exchange([endpoint |-> "GET /health",
                         apiKeyHdr |-> req.apiKeyHdr, authHdr |-> req.authHdr] @@
                        HealthResponse(req))
    /\ UNCHANGED <<validTokens, now>>

----------------------------------------------------------------------------
(* The clock *)

Seconds == (0..MaxIssueSec) \cup ((Lifetime - 1)..(Lifetime + MaxIssueSec + 1))

\* the instants (Date.now(), in ms) at which the server is observed
TimePoints == {s * MsPerSec + f : s \in Seconds, f \in {0, MsPerSec - 1}}

TickSweeping ==
    /\ \E t \in TimePoints : t > now /\ now' = t
    /\ last' = Blank
    /\ validTokens' = {t \in validTokens : now' \div MsPerSec < t.payload.exp}

Tick ==
    /\ \E t \in TimePoints : t > now /\ now' = t
    /\ last' = Blank
    /\ UNCHANGED validTokens

----------------------------------------------------------------------------
(* Specifications *)

Init ==
    /\ validTokens = {}
    /\ now = 0
    /\ last = Blank
    /\ issuedLog = <<>>
    /\ revoked = {}
    /\ lost = {}
    /\ inflight = [c \in Clients |-> None]
    /\ seqTokens = {}

Token == (\E req \in TokenRequests : OAuthToken(req)) /\ UNCHANGED aside
Revoke == (\E req \in RevokeRequests : OAuthRevoke(req)) /\ UNCHANGED aside
Post == (\E req \in McpRequests : McpPost(req)) /\ UNCHANGED aside
Get == (\E req \in GetRequests : McpGet(req)) /\ UNCHANGED aside
Health == (\E req \in HealthRequests : HealthCheck(req)) /\ UNCHANGED aside
Advance == Tick /\ UNCHANGED aside

Next == Token \/ Revoke \/ Post \/ Get \/ Health \/ Advance

Spec == Init /\ [][Next]_vars

(* The same endpoints with a record of what they answered: issuedLog is    *)
(* the sequence of access_token values returned by successful issuances,  *)
(* revoked the set of registered tokens that a revocation answered 200     *)
(* took out of the registry.                                               *)

HistTokenRequests ==
    {req \in TokenRequests :
        /\ req.grant_type = Some("client_credentials")
        /\ req.client_id # None
        /\ req.client_secret # None}

HistRevokeRequests ==
    [token : {None} \cup {Some(t) : t \in IssuableTokens \cup {GarbageToken}},
     apiKeyHdr : {None}, authHdr : {None}]

HistToken ==
    /\ Len(issuedLog) < MaxIssues
    /\ \E req \in HistTokenRequests : OAuthToken(req)
    /\ issuedLog' = IF last'.status = 200
                    THEN Append(issuedLog, last'.access_token[1])
                    ELSE issuedLog
    /\ UNCHANGED <<revoked, lost, conc>>

HistRevoke ==
    /\ \E req \in HistRevokeRequests : OAuthRevoke(req)
    /\ revoked' = IF last'.status = 200
                  THEN revoked \cup ({last'.token[1]} \cap validTokens)
                  ELSE revoked
    /\ UNCHANGED <<issuedLog, lost, conc>>

HistPost == (\E req \in BearerRequests : McpPost(req)) /\ UNCHANGED aside

NextHist == HistToken \/ HistRevoke \/ HistPost \/ Advance

SpecHist == Init /\ [][NextHist]_vars

(* The process is stopped and started again: module initialisation runs    *)
(* anew (const validTokens = new Set()); the wall clock goes on and the    *)
(* restart takes time. lost is the set of tokens that were registered when *)
(* a restart emptied the registry.                                         *)

Restart ==
    /\ validTokens' = {}
    /\ \E t \in TimePoints : t > now /\ now' = t
    /\ last' = Exchange([endpoint |-> "restart"])
    /\ lost' = lost \cup validTokens
    /\ UNCHANGED <<hist, conc>>

NextRestart == HistToken \/ HistRevoke \/ HistPost \/ Advance \/ Restart

SpecRestart == Init /\ [][NextRestart]_vars

(* Requests in flight. The handlers of /oauth/token and /oauth/revoke and  *)
(* validateAuth contain no await, so each runs to completion on the event  *)
(* loop; a POST /mcp is in flight between injectAuthMiddleware calling     *)
(* next() and its request handler running, and other requests are handled  *)
(* meanwhile. inflight[c] is the request of client c in flight, with the   *)
(* _meta the middleware left in its body and, as registered, whether its   *)
(* bearer token was in the registry when the middleware ran. seqTokens is  *)
(* the registry of a server that handles the same requests one at a time,  *)
(* in the order in which their handlers ran.                               *)

ConcRequests ==
    {r \in BearerRequests : r.authHdr[1].cred \in {FirstToken, GarbageToken}}

\* injectAuthMiddleware ran and called next()
McpReceive(c, req) ==
    /\ inflight[c] = None
    /\ inflight' = [inflight EXCEPT ![c] = Some([req |-> req,
                                                 meta |-> injectAuthMiddleware(req),
                                                 registered |->
                                                     req.authHdr[1].cred \in validTokens])]
    /\ UNCHANGED <<validTokens, now, last>>

\* the request handler of the POST of client c runs
McpHandle(c) ==
    /\ inflight[c] # None
    /\ LET req == inflight[c][1].req
           meta == inflight[c][1].meta
           body == [method |-> req.method, tool |-> req.tool, message |-> req.message]
       IN  last' = Exchange([endpoint |-> "POST /mcp", status |-> 200] @@ req @@
                            Dispatch(meta, body))
    /\ inflight' = [inflight EXCEPT ![c] = None]
    /\ UNCHANGED <<validTokens, now>>

ConcToken ==
    /\ \E req \in HistTokenRequests : OAuthToken(req)
    /\ seqTokens' = IF last'.status = 200
                    THEN seqTokens \cup {last'.access_token[1]}
                    ELSE seqTokens
    /\ UNCHANGED <<inflight, hist, lost>>

ConcRevoke ==
    /\ \E req \in HistRevokeRequests : OAuthRevoke(req)
    /\ seqTokens' = IF last'.status = 200
                    THEN seqTokens \ {last'.token[1]}
                    ELSE seqTokens
    /\ UNCHANGED <<inflight, hist, lost>>

Receive ==
    /\ \E c \in Clients, req \in ConcRequests : McpReceive(c, req)
    /\ UNCHANGED <<hist, lost, seqTokens>>

Handle ==
    /\ \E c \in Clients : McpHandle(c)
    /\ UNCHANGED <<hist, lost, seqTokens>>

NextConc == ConcToken \/ ConcRevoke \/ Receive \/ Handle \/ Advance

SpecConc == Init /\ [][NextConc]_vars

----------------------------------------------------------------------------
(* Properties *)

IsProtectedCall == last.endpoint = "POST /mcp" /\ last.vaCalled

\* the three conditions of a valid bearer token, at the current clock reading
SignatureOk(t) == t.parts = 3 /\ t.sig = Hmac(JWT_SECRET, t.payload)
Unexpired(t) == ClockTimestamp < t.payload.exp
Registered(t) == t \in validTokens

BearerAcceptable(o) ==
    o # None /\ SignatureOk(o[1]) /\ Unexpired(o[1]) /\ Registered(o[1])

\* C1: validateAuth answers "oauth2" for a bearer token only if the token's
\* signature verifies against JWT_SECRET, the clock is before its exp claim
\* and the token is a member of validTokens; if one of the three fails and
\* no valid API key is presented, the request is rejected.
ThmC1 ==
    IsProtectedCall =>
        /\ last.auth = "oauth2" => BearerAcceptable(last.vaBearer)
        /\ (last.vaApiKey # Some(VALID_API_KEY) /\ ~ BearerAcceptable(last.vaBearer))
               => (last.auth = "rejected" /\ last.result = "none")

\* a well-signed, unexpired token that is not registered has been rejected,
\* while another token is registered
WitC1 ==
    /\ IsProtectedCall
    /\ last.auth = "rejected"
    /\ last.vaBearer # None
    /\ SignatureOk(last.vaBearer[1]) /\ Unexpired(last.vaBearer[1])
    /\ ~ Registered(last.vaBearer[1])
    /\ validTokens # {}

\* C2: a client_credentials request with the configured pair is answered 200
\* with an access_token, and that token presented as bearer token of a
\* protected request handled right after it is authenticated as "oauth2".
ThmC2 ==
    /\ [](( /\ last.endpoint = "POST /oauth/token"
            /\ last.grant_type = Some("client_credentials")
            /\ last.client_id = Some(OAUTH_CLIENT_ID)
            /\ last.client_secret = Some(OAUTH_CLIENT_SECRET))
          => (last.status = 200 /\ last.access_token # None))
    /\ [][( /\ last.endpoint = "POST /oauth/token"
            /\ last.status = 200
            /\ last'.endpoint = "POST /mcp"
            /\ last'.vaCalled
            /\ last'.authHdr = Bearer(last.access_token[1])
            /\ last'.vaApiKey # Some(VALID_API_KEY))
          => last'.auth = "oauth2"]_vars

\* a tool call was authenticated by the bearer token of its Authorization header
WitC2 ==
    /\ IsProtectedCall
    /\ last.method = "tools/call"
    /\ last.auth = "oauth2"
    /\ last.authHdr = Bearer(last.vaBearer[1])

\* C5: a client_credentials request whose client_id or client_secret differs
\* from the configured pair is answered 401 invalid_client, carries no token
\* and leaves validTokens unchanged.
ThmC5 ==
    [][( /\ last'.endpoint = "POST /oauth/token"
         /\ last'.grant_type = Some("client_credentials")
         /\ \/ last'.client_id # Some(OAUTH_CLIENT_ID)
            \/ last'.client_secret # Some(OAUTH_CLIENT_SECRET))
       => /\ last'.status = 401
          /\ last'.error = "invalid_client"
          /\ last'.access_token = None
          /\ validTokens' = validTokens]_vars

\* invalid_client was answered for a right client_id with a wrong secret,
\* with a token in the registry
WitC5 ==
    /\ last.endpoint = "POST /oauth/token"
    /\ last.status = 401
    /\ last.client_id = Some(OAUTH_CLIENT_ID)
    /\ last.client_secret = Some("wrong-secret")
    /\ validTokens # {}

\* C6: every registered token has exp = iat + 3600; a registered token
\* presented without a valid API key validates as "oauth2" while the clock
\* is at most iat + 3599 and is rejected once the clock is at least
\* iat + 3601.
ThmC6 ==
    /\ \A t \in validTokens : t.payload.exp = t.payload.iat + 3600
    /\ ( /\ IsProtectedCall
         /\ last.vaBearer # None
         /\ last.vaApiKey # Some(VALID_API_KEY)
         /\ Registered(last.vaBearer[1]) )
       => LET iat == last.vaBearer[1].payload.iat
          IN  /\ ClockTimestamp <= iat + 3599 => last.auth = "oauth2"
              /\ ClockTimestamp >= iat + 3601 => last.auth = "rejected"

\* a registered token was accepted in the last second of its lifetime
WitC6 ==
    /\ IsProtectedCall
    /\ last.vaBearer # None
    /\ Registered(last.vaBearer[1])
    /\ ClockTimestamp = last.vaBearer[1].payload.iat + 3599
    /\ last.auth = "oauth2"

\* C7: a tools/list or tools/call request calls validateAuth; it yields a
\* result, logs or runs anything of the operation only if validateAuth
\* answered "apikey" or "oauth2", and a rejected one is answered with error
\* code -32600 and nothing else.
ThmC7 ==
    (last.endpoint = "POST /mcp" /\ last.method \in {"tools/list", "tools/call"})
    => /\ last.vaCalled
       /\ (last.result # "none" \/ last.ran \/ last.logged)
              => last.auth \in {"apikey", "oauth2"}
       /\ last.auth = "rejected"
              => /\ last.rpcCode = -32600
                 /\ last.result = "none"
                 /\ ~ last.ran /\ ~ last.logged

\* a tools/list request was rejected
WitC7 ==
    /\ last.endpoint = "POST /mcp"
    /\ last.method = "tools/list"
    /\ last.auth = "rejected"
    /\ last.rpcCode = -32600

\* C8: every request on /mcp (POST of any method, or GET) that is answered
\* without an error was authenticated by a valid API key or bearer token.
CexC8 ==
    ( /\ last.endpoint \in {"POST /mcp", "GET /mcp"}
      /\ last.rpcCode = 0
      /\ last.result # "none" )
    => last.auth \in {"apikey", "oauth2"}

\* C9: a protected request with neither an x-api-key nor an Authorization
\* header is rejected with the authentication-required error, whatever
\* _meta its JSON body carries.
CexC9 ==
    (IsProtectedCall /\ last.apiKeyHdr = None /\ last.authHdr = None)
    => /\ last.auth = "rejected"
       /\ last.rpcMessage = MsgAuthRequired

\* C10: a protected request whose x-api-key header is the configured key is
\* authenticated as "apikey" in every registry state, and a request
\* authenticated as "apikey" leaves validTokens as it was.
ThmC10 ==
    /\ []((IsProtectedCall /\ last.apiKeyHdr = Some(VALID_API_KEY))
          => last.auth = "apikey")
    /\ [][(last'.endpoint = "POST /mcp" /\ last'.auth = "apikey")
          => validTokens' = validTokens]_vars

\* the API key was accepted together with a bearer token that is registered
\* and expired
WitC10 ==
    /\ IsProtectedCall
    /\ last.auth = "apikey"
    /\ last.vaBearer # None
    /\ Registered(last.vaBearer[1])
    /\ ~ Unexpired(last.vaBearer[1])

\* C3: once a revocation was answered for a token of the registry, every
\* later validation presenting that token (with no valid API key) is
\* rejected with the invalid-token error.
CexC3 ==
    ( /\ IsProtectedCall
      /\ last.vaApiKey # Some(VALID_API_KEY)
      /\ last.vaBearer # None
      /\ last.vaBearer[1] \in revoked )
    => /\ last.auth = "rejected"
       /\ last.rpcMessage = MsgInvalidToken

\* C4: the access_token values of any two successful issuances differ, and
\* with no revocation the registry holds as many tokens as were issued.
CexC4 ==
    /\ \A i, j \in 1..Len(issuedLog) : i # j => issuedLog[i] # issuedLog[j]
    /\ revoked = {} => Cardinality(validTokens) = Len(issuedLog)

\* what a client sees of the answer to a protected request
RpcResponse == <<last.auth, last.rpcCode, last.rpcMessage, last.result>>

\* C11: a bearer token that is malformed, badly signed, expired or absent
\* from the registry (no valid API key presented) always gets the same
\* answer: error code -32600 with the message "Invalid or expired OAuth2
\* token".
ThmC11 ==
    ( /\ IsProtectedCall
      /\ last.vaApiKey # Some(VALID_API_KEY)
      /\ TruthyTok(last.vaBearer)
      /\ ~ BearerAcceptable(last.vaBearer) )
    => RpcResponse = <<"rejected", -32600, MsgInvalidToken, "none">>

\* a registered, well-signed token was rejected after its expiry with the
\* generic answer
WitC11 ==
    /\ IsProtectedCall
    /\ last.vaBearer # None
    /\ SignatureOk(last.vaBearer[1])
    /\ Registered(last.vaBearer[1])
    /\ ~ Unexpired(last.vaBearer[1])
    /\ RpcResponse = <<"rejected", -32600, MsgInvalidToken, "none">>

\* C12: every call of validateAuth ends as "apikey", as "oauth2" or as an
\* McpError with code InvalidRequest; nothing else escapes, also for a
\* bearer string that is not a JWT.
ThmC12 ==
    IsProtectedCall =>
        /\ last.auth \in {"apikey", "oauth2", "rejected"}
        /\ last.auth = "rejected"
               => /\ last.rpcCode = InvalidRequest
                  /\ last.rpcMessage \in {MsgInvalidToken, MsgAuthRequired}
        /\ last.auth \in {"apikey", "oauth2"} => last.rpcCode # InvalidRequest

\* a bearer string that is not a JWT was rejected with InvalidRequest
WitC12 ==
    /\ IsProtectedCall
    /\ last.vaBearer = Some(GarbageToken)
    /\ last.auth = "rejected"
    /\ last.rpcCode = InvalidRequest

\* C13: a protected request with a wrong (non-empty) x-api-key and no bearer
\* token gets the answer of a request without any credential: error code
\* -32600 with the authentication-required message, never a result.
ThmC13 ==
    ( /\ IsProtectedCall
      /\ TruthyStr(last.apiKeyHdr)
      /\ last.apiKeyHdr # Some(VALID_API_KEY)
      /\ ~ TruthyTok(last.vaBearer) )
    => RpcResponse = <<"rejected", -32600, MsgAuthRequired, "none">>

\* a wrong key without bearer token was rejected
WitC13 ==
    /\ IsProtectedCall
    /\ last.apiKeyHdr = Some("wrong-key")
    /\ last.authHdr = None
    /\ last.metaBearer = None
    /\ last.auth = "rejected"

IsRevocation == last.endpoint = "POST /oauth/revoke"

\* what a client sees of the answer to a revocation request
RevokeResponse == <<last.status, last.revoked, last.error, last.error_description>>

\* C14: a revocation answered 200 for a token T leaves validTokens without T
\* and otherwise as it was: revoking a non-member changes nothing, and so
\* does a second revocation of T right after the first.
ThmC14 ==
    [][(last'.endpoint = "POST /oauth/revoke" /\ last'.status = 200)
       => LET T == last'.token[1]
          IN  /\ validTokens' = validTokens \ {T}
              /\ T \notin validTokens => validTokens' = validTokens
              /\ (IsRevocation /\ last.status = 200 /\ last.token = last'.token)
                     => validTokens' = validTokens]_vars

\* a string that is not a JWT was revoked while a token is registered
WitC14 ==
    /\ IsRevocation
    /\ last.status = 200
    /\ last.token = Some(GarbageToken)
    /\ validTokens # {}

\* C15 as claimed: every revocation request whose token field is present is
\* answered 200 {revoked: true}.
CexC15 ==
    (IsRevocation /\ last.token # None)
    => (last.status = 200 /\ last.revoked)

\* C15: the answer to a revocation request is decided by the request alone:
\* 200 {revoked: true} for a token field that is present and not empty, 400
\* invalid_request otherwise, whatever the registry holds.
ThmC15 ==
    IsRevocation =>
        RevokeResponse =
            IF last.token # None /\ last.token[1] # EmptyToken
            THEN <<200, TRUE, "", "">>
            ELSE <<400, FALSE, "invalid_request", "Token parameter is required">>

\* a token that was never issued was revoked with 200 while the registry
\* holds another token
WitC15 ==
    /\ IsRevocation
    /\ last.token = Some(ForgedToken)
    /\ RevokeResponse = <<200, TRUE, "", "">>
    /\ validTokens # {}

\* C18 as claimed: a missing token field is answered 400 invalid_request with
\* the registry unchanged, and every request whose token field is present is
\* answered 200 and leaves that token out of the registry.
CexC18 ==
    /\ [](IsRevocation =>
            /\ last.token = None => (last.status = 400 /\ last.error = "invalid_request")
            /\ last.token # None => (last.status = 200 /\ last.token[1] \notin validTokens))
    /\ [][(last'.endpoint = "POST /oauth/revoke" /\ last'.token = None)
          => validTokens' = validTokens]_vars

\* C18: a revocation request whose token field is missing or empty is
\* answered 400 invalid_request with the registry unchanged; one whose token
\* field is a non-empty string is answered 200 and leaves that token out of
\* the registry.
ThmC18 ==
    /\ [](IsRevocation =>
            /\ ~ TruthyTok(last.token)
                   => (last.status = 400 /\ last.error = "invalid_request")
            /\ TruthyTok(last.token)
                   => (last.status = 200 /\ last.token[1] \notin validTokens))
    /\ [][(last'.endpoint = "POST /oauth/revoke" /\ ~ TruthyTok(last'.token))
          => validTokens' = validTokens]_vars

\* an empty token string was answered 400 while a token is registered
WitC18 ==
    /\ IsRevocation
    /\ last.token = Some(EmptyToken)
    /\ last.status = 400
    /\ validTokens # {}

IsTokenRequest == last.endpoint = "POST /oauth/token"

\* C16: a token request whose grant_type is not exactly "client_credentials"
\* (a missing one included) is answered 400 unsupported_grant_type, with
\* right and with wrong client credentials alike, and leaves validTokens
\* unchanged.
ThmC16 ==
    [][(last'.endpoint = "POST /oauth/token"
        /\ last'.grant_type # Some("client_credentials"))
       => /\ last'.status = 400
          /\ last'.error = "unsupported_grant_type"
          /\ last'.access_token = None
          /\ validTokens' = validTokens]_vars

\* a request without grant_type and with the configured credentials was
\* answered 400 while a token is registered
WitC16 ==
    /\ IsTokenRequest
    /\ last.grant_type = None
    /\ last.client_id = Some(OAUTH_CLIENT_ID)
    /\ last.client_secret = Some(OAUTH_CLIENT_SECRET)
    /\ last.status = 400
    /\ validTokens # {}

\* C17: a successful issuance answers token_type "Bearer", expires_in 3600
\* and scope "mcp:tools" with an access_token whose claims carry the
\* requesting client_id, scope "mcp:tools" and exp - iat = expires_in.
ThmC17 ==
    (IsTokenRequest /\ last.status = 200)
    => /\ last.access_token # None
       /\ last.token_type = "Bearer"
       /\ last.expires_in = 3600
       /\ last.scope = "mcp:tools"
       /\ LET claims == last.access_token[1].payload
          IN  /\ claims.client_id = last.client_id
              /\ claims.scope = "mcp:tools"
              /\ claims.exp - claims.iat = last.expires_in

\* a token was issued during second 1
WitC17 ==
    /\ IsTokenRequest
    /\ last.status = 200
    /\ last.access_token # None
    /\ last.access_token[1].payload.iat = 1

\* C19: the invalid_client answer is the same whether client_id, client_secret
\* or both are wrong.
ThmC19 ==
    ( /\ IsTokenRequest
      /\ last.grant_type = Some("client_credentials")
      /\ \/ last.client_id # Some(OAUTH_CLIENT_ID)
         \/ last.client_secret # Some(OAUTH_CLIENT_SECRET) )
    => <<last.status, last.error, last.error_description, last.access_token>>
         = <<401, "invalid_client", "Invalid client credentials", None>>

\* only the client_id was wrong
WitC19 ==
    /\ IsTokenRequest
    /\ last.grant_type = Some("client_credentials")
    /\ last.client_id = Some("wrong-id")
    /\ last.client_secret = Some(OAUTH_CLIENT_SECRET)
    /\ last.status = 401

\* the outcome of validateAuth a client sees: the method, or the error message
AuthOutcome == <<last.auth, IF last.auth = "rejected" THEN last.rpcMessage ELSE "">>

\* the outcome the bearer token alone produces
BearerAlone(bearerToken) ==
    IF ~ TruthyTok(bearerToken) THEN <<"rejected", MsgAuthRequired>>
    ELSE IF BearerAcceptable(bearerToken) THEN <<"oauth2", "">>
    ELSE <<"rejected", MsgInvalidToken>>

\* C20: with the configured API key the outcome is "apikey" whatever the
\* bearer token is; with any other API key the outcome is the one the
\* bearer token alone produces.
ThmC20 ==
    IsProtectedCall =>
        /\ last.vaApiKey = Some(VALID_API_KEY) => AuthOutcome = <<"apikey", "">>
        /\ last.vaApiKey # Some(VALID_API_KEY) => AuthOutcome = BearerAlone(last.vaBearer)

\* a wrong API key came with a valid bearer token, which was accepted
WitC20 ==
    /\ IsProtectedCall
    /\ last.vaApiKey = Some("wrong-key")
    /\ last.auth = "oauth2"

IsToolsRequest ==
    last.endpoint = "POST /mcp" /\ last.method \in {"tools/list", "tools/call"}

\* C21: a registered, unexpired, well-signed token presented with no API key
\* in an Authorization header whose scheme is written "Bearer ", "bearer "
\* or "BEARER " is authenticated as "oauth2".
CexC21 ==
    (/\ IsToolsRequest
     /\ last.apiKeyHdr = None /\ last.metaApiKey = None /\ last.metaBearer = None
     /\ last.authHdr # None
     /\ last.authHdr[1].scheme \in {"Bearer ", "bearer ", "BEARER "}
     /\ BearerAcceptable(Some(last.authHdr[1].cred)))
    => last.auth = "oauth2"

\* the credentials a request r carries: the header where it has a value, the
\* body's _meta otherwise
OwnApiKey(r) ==
    IF r.apiKeyHdr # None /\ r.apiKeyHdr[1] # "" THEN r.apiKeyHdr ELSE r.metaApiKey
OwnBearer(r) ==
    IF r.authHdr # None /\ r.authHdr[1].scheme = "Bearer " /\ r.authHdr[1].cred.parts # 0
    THEN Some(r.authHdr[1].cred)
    ELSE r.metaBearer

\* the authentication outcome as a function of the request r, the registry
\* and the clock reading (ms)
OutcomeOf(r, registry, clock) ==
    IF OwnApiKey(r) = Some(VALID_API_KEY) THEN "apikey"
    ELSE IF /\ OwnBearer(r) # None
            /\ OwnBearer(r)[1].parts = 3
            /\ OwnBearer(r)[1].sig = Hmac(JWT_SECRET, OwnBearer(r)[1].payload)
            /\ clock \div MsPerSec < OwnBearer(r)[1].payload.exp
            /\ OwnBearer(r)[1] \in registry
         THEN "oauth2"
         ELSE "rejected"

ThmC23 ==
    [][last'.endpoint = "GET /health"
       => /\ last'.status = 200
          /\ last'.body_status = "ok"
          /\ ~ last'.vaCalled
          /\ validTokens' = validTokens]_vars

\* the health check answered ok to a request with no API key and a garbage
\* bearer token, while tokens are registered
WitC23 ==
    /\ last.endpoint = "GET /health"
    /\ last.body_status = "ok"
    /\ last.apiKeyHdr = None
    /\ last.authHdr = Bearer(GarbageToken)
    /\ validTokens # {}

\* the outcome of validateAuth on a server that handled the same requests one
\* at a time
SeqOutcome ==
    IF last.vaApiKey = Some(VALID_API_KEY) THEN "apikey"
    ELSE IF /\ TruthyTok(last.vaBearer)
            /\ SignatureOk(last.vaBearer[1])
            /\ Unexpired(last.vaBearer[1])
            /\ last.vaBearer[1] \in seqTokens
         THEN "oauth2"
         ELSE "rejected"

\* C24: with /mcp requests in flight while tokens are issued and revoked, the
\* registry is at every moment the registry of a server that handled the
\* same requests one at a time in the order their handlers ran (no insert
\* and no delete is lost), and every answer is the answer of that server: a
\* validation answers by membership in that registry, an issued token is in
\* it, a revoked token is not.
ThmC24 ==
    /\ validTokens = seqTokens
    /\ IsProtectedCall => last.auth = SeqOutcome
    /\ (IsTokenRequest /\ last.status = 200) => last.access_token[1] \in seqTokens
    /\ (IsRevocation /\ last.status = 200) => last.token[1] \notin seqTokens

\* a token has just been revoked while every client has a request carrying
\* it in flight, received when the token was registered
WitC24 ==
    /\ IsRevocation
    /\ last.status = 200
    /\ \A c \in Clients :
          /\ inflight[c] # None
          /\ inflight[c][1].meta.bearerToken = last.token
          /\ inflight[c][1].registered

\* C25: a protected request, whatever credentials reach validateAuth and
\* whatever the outcome, leaves validTokens as it was; so an expired token
\* that has been rejected is still registered.
ThmC25 ==
    [][(last'.endpoint = "POST /mcp" /\ last'.vaCalled)
       => validTokens' = validTokens]_vars

\* a registered, well-signed token has been rejected after its expiry and is
\* still registered
WitC25 ==
    /\ IsProtectedCall
    /\ last.auth = "rejected"
    /\ last.vaBearer # None
    /\ SignatureOk(last.vaBearer[1])
    /\ ~ Unexpired(last.vaBearer[1])
    /\ Registered(last.vaBearer[1])

\* C26: validTokens changes only by a successful issuance, which inserts the
\* returned token, and by a revocation answered 200, which removes the named
\* token; a step of the clock leaves it unchanged, and a registered token
\* presented without a valid API key after its expiry is rejected with the
\* invalid-token error.
ThmC26 ==
    /\ [][/\ validTokens' # validTokens
              => \/ /\ last'.endpoint = "POST /oauth/token"
                    /\ last'.status = 200
                    /\ validTokens' = validTokens \cup {last'.access_token[1]}
                 \/ /\ last'.endpoint = "POST /oauth/revoke"
                    /\ last'.status = 200
                    /\ validTokens' = validTokens \ {last'.token[1]}
          /\ now' # now => validTokens' = validTokens]_vars
    /\ []((/\ IsProtectedCall
            /\ last.vaApiKey # Some(VALID_API_KEY)
            /\ last.vaBearer # None
            /\ Registered(last.vaBearer[1])
            /\ ~ Unexpired(last.vaBearer[1]))
           => AuthOutcome = <<"rejected", MsgInvalidToken>>)

\* the clock has just passed the expiry of a registered token
WitC26 ==
    /\ last = Blank
    /\ \E t \in validTokens : ClockTimestamp = t.payload.exp

\* C27: a tools/list or tools/call request whose Authorization header does
\* not start with "Bearer " is decided on the API key alone: "apikey" with
\* the configured key, the authentication-required rejection otherwise.
CexC27 ==
    (/\ IsToolsRequest
     /\ last.authHdr # None
     /\ last.authHdr[1].scheme # "Bearer ")
    => AuthOutcome = IF last.vaApiKey = Some(VALID_API_KEY)
                     THEN <<"apikey", "">>
                     ELSE <<"rejected", MsgAuthRequired>>

\* the request carries an empty credential and nothing else
OnlyEmptyCredentials ==
    /\ last.apiKeyHdr \in {None, Some("")}
    /\ last.authHdr \in {None, Bearer(EmptyToken)}
    /\ last.apiKeyHdr # None \/ last.authHdr # None
    /\ last.metaApiKey = None
    /\ last.metaBearer = None

\* C28: an empty x-api-key value does not authenticate, the header
\* "Bearer " with an empty token gives validateAuth no bearer token, and a
\* request that carries only empty credentials is rejected with the
\* authentication-required error.
ThmC28 ==
    IsToolsRequest =>
        /\ (last.apiKeyHdr = Some("") /\ last.metaApiKey = None)
               => (last.vaApiKey = None /\ last.auth # "apikey")
        /\ (last.authHdr = Bearer(EmptyToken) /\ last.metaBearer = None)
               => last.vaBearer = None
        /\ OnlyEmptyCredentials => AuthOutcome = <<"rejected", MsgAuthRequired>>

\* a request with an empty x-api-key and an empty bearer token has been
\* rejected while tokens are registered
WitC28 ==
    /\ IsToolsRequest
    /\ last.apiKeyHdr = Some("")
    /\ last.authHdr = Bearer(EmptyToken)
    /\ last.rpcMessage = MsgAuthRequired
    /\ validTokens # {}

\* C29: a token that was registered when the process restarted is rejected
\* by every validation after the restart.
CexC29 ==
    (/\ IsProtectedCall
     /\ last.vaApiKey # Some(VALID_API_KEY)
     /\ last.vaBearer # None
     /\ last.vaBearer[1] \in lost)
    => last.auth = "rejected"

IsAuthenticated == last.auth \in {"apikey", "oauth2"}

\* C30 as claimed: an authenticated tools/list or tools/call request emits
\* exactly one event, which carries the authentication method and a
\* timestamp; a rejected one emits none.
CexC30 ==
    IsToolsRequest =>
        IF IsAuthenticated
        THEN /\ Len(last.audit) = 1
             /\ last.audit[1].via = last.auth
             /\ "timestamp" \in DOMAIN last.audit[1]
        ELSE last.audit = <<>>

\* C30: an authenticated tools/list or tools/call request emits exactly one
\* log line, which names the request kind and the authentication method and
\* nothing else; a rejected one emits none; and the answer is the one the
\* method and the arguments determine.
ThmC30 ==
    IsToolsRequest =>
        /\ IF IsAuthenticated
           THEN last.audit = <<[request |-> last.method, via |-> last.auth]>>
           ELSE last.audit = <<>> /\ last.result = "none"
        /\ (IsAuthenticated /\ last.method = "tools/list")
               => (last.rpcCode = 0 /\ last.result = "tools")
        /\ (IsAuthenticated /\ last.method = "tools/call" /\ last.tool = "echo")
               => IF TruthyStr(last.message)
                  THEN last.rpcCode = 0 /\ last.result = "content"
                  ELSE last.rpcCode = InvalidParams
        /\ (IsAuthenticated /\ last.method = "tools/call" /\ last.tool = "no-such-tool")
               => last.rpcCode = MethodNotFound

\* a tool call authenticated by a bearer token has emitted its line
WitC30 ==
    /\ IsToolsRequest
    /\ last.audit = <<[request |-> "tools/call", via |-> "oauth2"]>>
    /\ last.result = "content"

\* the access_token values the successful issuances of this run returned
Issued == {issuedLog[i] : i \in 1..Len(issuedLog)}

\* C31: every member of validTokens was returned by a successful
\* POST /oauth/token of this run, is signed with JWT_SECRET and carries the
\* configured client id and the scope "mcp:tools"; a string named in a
\* revocation request never enters the registry.
ThmC31 ==
    /\ \A t \in validTokens :
          /\ t \in Issued
          /\ SignatureOk(t)
          /\ t.payload.client_id = Some(OAUTH_CLIENT_ID)
          /\ t.payload.scope = "mcp:tools"
    /\ (IsRevocation /\ last.token # None /\ last.token[1] \notin Issued)
          => last.token[1] \notin validTokens

\* a revocation naming a string the server never issued has been answered
\* 200 while an issued token is registered
WitC31 ==
    /\ IsRevocation
    /\ last.status = 200
    /\ last.token = Some(GarbageToken)
    /\ validTokens # {}

\* C32: a revocation answered 200 for a token T removes nothing but T, and a
\* registered, well-signed, unexpired token other than T presented right
\* after it (with no valid API key) is authenticated as "oauth2".
ThmC32 ==
    [][/\ (last'.endpoint = "POST /oauth/revoke" /\ last'.status = 200)
          => /\ validTokens \ {last'.token[1]} \subseteq validTokens'
             /\ validTokens' \subseteq validTokens
       /\ (/\ IsRevocation /\ last.status = 200
           /\ last'.endpoint = "POST /mcp" /\ last'.vaCalled
           /\ last'.vaApiKey # Some(VALID_API_KEY)
           /\ last'.vaBearer # None
           /\ last'.vaBearer # last.token
           /\ BearerAcceptable(last'.vaBearer))
          => last'.auth = "oauth2"]_vars

\* one of two registered tokens was revoked and the other one has been
\* authenticated since
WitC32 ==
    /\ IsProtectedCall
    /\ last.auth = "oauth2"
    /\ \E t \in revoked : t # last.vaBearer[1] /\ ~ Registered(t)

\* the well-signed token t has been rejected at a clock reading that is not
\* before its exp claim
ExpiredRejected(t) ==
    /\ IsProtectedCall
    /\ last.vaBearer = Some(t)
    /\ last.auth = "rejected"
    /\ SignatureOk(t)
    /\ ~ Unexpired(t)

Validated(t) ==
    /\ IsProtectedCall
    /\ last.vaBearer = Some(t)
    /\ last.auth = "oauth2"

IsToolCall == last.endpoint = "POST /mcp" /\ last.method = "tools/call"

\* C34: a tools/call request that is not authenticated is answered with
\* InvalidRequest and one of the two authentication messages, whether the
\* named tool exists and whether its arguments are valid; "Unknown tool" and
\* "Message is required" are answered to authenticated callers only.
ThmC34 ==
    IsToolCall =>
        /\ ~ IsAuthenticated
              => /\ last.auth = "rejected"
                 /\ last.rpcCode = InvalidRequest
                 /\ last.rpcMessage \in {MsgAuthRequired, MsgInvalidToken}
        /\ last.rpcMessage \in {"Unknown tool", "Message is required"}
              => IsAuthenticated
        /\ last.rpcCode \in {MethodNotFound, InvalidParams} => IsAuthenticated

\* a call of a tool that does not exist, without credentials, has been
\* answered with the authentication-required error
WitC34 ==
    /\ IsToolCall
    /\ last.tool = "no-such-tool"
    /\ last.apiKeyHdr = None /\ last.authHdr = None
    /\ last.rpcMessage = MsgAuthRequired

\* C35: in the state in which a 200 token response is out, the returned
\* access_token is a member of validTokens, and in the state in which a 200
\* revocation response is out, the named token is not; so a validation
\* handled next (with no valid API key) accepts the token just returned and
\* rejects the token just revoked.
ThmC35 ==
    /\ []((IsTokenRequest /\ last.status = 200) => Registered(last.access_token[1]))
    /\ []((IsRevocation /\ last.status = 200) => ~ Registered(last.token[1]))
    /\ [][(/\ last'.endpoint = "POST /mcp" /\ last'.vaCalled
            /\ last'.vaApiKey # Some(VALID_API_KEY)
            /\ last.status = 200)
           => /\ (IsTokenRequest /\ last'.vaBearer = last.access_token)
                    => last'.auth = "oauth2"
              /\ (IsRevocation /\ last'.vaBearer = last.token)
                    => last'.auth = "rejected"]_vars

\* the token response that made a second token a member is out
WitC35 ==
    /\ IsTokenRequest
    /\ last.status = 200
    /\ Registered(last.access_token[1])
    /\ Cardinality(validTokens) = 2

\* C36: POST /oauth/revoke answers and acts by the token field alone,
\* whatever x-api-key and Authorization headers come with it: a token that
\* is present and not empty is removed and answered 200 {revoked: true},
\* anything else is answered 400 invalid_request with the registry
\* unchanged, and validateAuth is not called.
ThmC36 ==
    [][last'.endpoint = "POST /oauth/revoke"
       => /\ ~ last'.vaCalled
          /\ IF last'.token # None /\ last'.token[1].parts # 0
             THEN /\ <<last'.status, last'.revoked, last'.error>> = <<200, TRUE, "">>
                  /\ validTokens' = validTokens \ {last'.token[1]}
             ELSE /\ <<last'.status, last'.revoked, last'.error>> =
                         <<400, FALSE, "invalid_request">>
                  /\ validTokens' = validTokens]_vars

\* an unexpired token has been revoked by a request whose only credential
\* was that token, while another token stays registered
WitC36 ==
    /\ IsRevocation
    /\ last.status = 200
    /\ last.apiKeyHdr = None
    /\ last.authHdr = Bearer(FirstToken)
    /\ last.token = Some(FirstToken)
    /\ Unexpired(FirstToken)
    /\ validTokens # {}

\* C37: when no bearer token reaches validateAuth, it answers "apikey"
\* exactly for the API keys for which validateApiKey returns, and for the
\* others both reject with the code InvalidRequest.
ThmC37 ==
    (IsProtectedCall /\ last.vaBearer = None) =>
        LET legacy == validateApiKey(last.vaApiKey)
        IN  /\ last.auth = "apikey" <=> legacy.auth = "returned"
            /\ last.auth # "apikey"
                  => /\ last.auth = "rejected"
                     /\ last.rpcCode = InvalidRequest
                     /\ legacy.auth = "rejected"
                     /\ legacy.code = InvalidRequest

\* an empty API key and no bearer token reached validateAuth, which rejected
WitC37 ==
    /\ IsProtectedCall
    /\ last.vaApiKey = Some("")
    /\ last.vaBearer = None
    /\ last.auth = "rejected"

====
